---- MODULE Spec2Model ----
(***************************************************************************)
(* Model of the indexer's utility library (lib/utils) and of three of its  *)
(* event handlers.                                                         *)
(*                                                                         *)
(* Two state machines share the module:                                    *)
(*   SpecFetch  one call of getTransactions / getOriginations talking to   *)
(*              the upstream API page by page;                             *)
(*   Spec       calls of the pure utilities (filterDiffs / findDiff,       *)
(*              transactionMatchesPattern, createEventId) and of the       *)
(*              handlers' exec functions, each recorded in `call`.         *)
(***************************************************************************)
EXTENDS Integers, Sequences, FiniteSets, TLC

VARIABLES
    fpc,              \* position of the fetch call: idle, awaiting, done, failed
    endpoint,         \* which of the two fetch functions was called
    perPage,          \* argument perPage
    maxPages,         \* argument maxPages
    currentPage,      \* local currentPage
    allTransactions,  \* local allTransactions / allOriginations
    requests,         \* the requests issued so far (offset, limit), in order
    pages,            \* the pages the upstream returned so far, in order
    fetchResult,      \* the value the call returned
    call              \* the call of a pure utility or handler a behaviour makes, with its result

fetchVars == <<fpc, endpoint, perPage, maxPages, currentPage, allTransactions,
               requests, pages, fetchResult>>
vars == <<fpc, endpoint, perPage, maxPages, currentPage, allTransactions,
          requests, pages, fetchResult, call>>

(***************************************************************************)
(* Bounds of the model.                                                    *)
(***************************************************************************)
MaxPerPage == 2
MaxMaxPages == 3
NumIds == 2
MaxDiffs == 2
MaxCounter == 1
MaxNonce == 0
MaxIdx == 1

(***************************************************************************)
(* JavaScript values.  Every value carries its type; the payload field has *)
(* a different name for each type.                                         *)
(***************************************************************************)
Undef == [t |-> "undefined"]
Null == [t |-> "null"]
Str(s) == [t |-> "string", s |-> s]
Num(n) == [t |-> "number", n |-> n]
Obj(f) == [t |-> "object", f |-> f]
Arr(a) == [t |-> "array", a |-> a]

\* The outcome of a call: a returned value or a thrown error.
Return(v) == [ok |-> TRUE, value |-> v]
Throw(e) == [ok |-> FALSE, error |-> e]

\* A function member of a built-in prototype.
Fn(name) == [t |-> "function", name |-> name]

\* obj[k] / obj.k for an own key k of the data: undefined when the property
\* is absent, and on a value that has no such property of its own.
Prop(x, k) == IF x.t = "object" /\ k \in DOMAIN x.f THEN x.f[k] ELSE Undef

\* k in obj, for a key k that no prototype defines.
HasProp(x, k) == x.t = "object" /\ k \in DOMAIN x.f

\* A dotted path string 'a.b.c' is given by its segments <<"a","b","c">>;
\* Dotted gives the string back.
RECURSIVE Dotted(_)
Dotted(path) == IF Len(path) = 1 THEN Head(path) ELSE Head(path) \o "." \o Dotted(Tail(path))

\* lodash baseGet: the path walked segment by segment; undefined as soon as
\* a segment is read from undefined or null, or is absent.
RECURSIVE baseGet(_, _)
baseGet(x, path) ==
    IF path = <<>> THEN x
    ELSE IF x.t = "object" /\ Head(path) \in DOMAIN x.f
         THEN baseGet(x.f[Head(path)], Tail(path))
         ELSE Undef

\* lodash get(object, 'a.b.c'): when the object has a key spelt like the
\* whole string, that key is read and the string is not split (isKey);
\* otherwise the string is split at its dots and the path is walked.
get(x, path) ==
    IF x.t = "object" /\ Dotted(path) \in DOMAIN x.f THEN x.f[Dotted(path)] ELSE baseGet(x, path)

\* JavaScript truthiness of the values the model uses.
Truthy(x) ==
    CASE x.t = "undefined" -> FALSE
      [] x.t = "null" -> FALSE
      [] x.t = "string" -> x.s # ""
      [] x.t = "number" -> x.n # 0
      [] OTHER -> TRUE

\* String(x) / `${x}` / the conversion of x to a property key: the string,
\* or the TypeError thrown.  An array is joined with commas
\* (Array.prototype.join), its undefined and null elements giving the empty
\* string.  A plain object gives "[object Object]" by the inherited
\* toString; an own key toString of the data (never a function) shadows it,
\* and the conversion throws.
RECURSIVE ToStr(_)
RECURSIVE JoinElements(_)
JoinElements(a) ==
    IF a = <<>> THEN Return(Str(""))
    ELSE LET first == IF Head(a).t \in {"undefined", "null"} THEN Return(Str("")) ELSE ToStr(Head(a))
             rest == JoinElements(Tail(a))
         IN
         IF ~first.ok THEN first
         ELSE IF ~rest.ok THEN rest
         ELSE Return(Str(first.value.s \o (IF Tail(a) = <<>> THEN "" ELSE ",") \o rest.value.s))

ToStr(x) ==
    CASE x.t = "undefined" -> Return(Str("undefined"))
      [] x.t = "null" -> Return(Str("null"))
      [] x.t = "string" -> Return(x)
      [] x.t = "number" -> Return(Str(ToString(x.n)))
      [] x.t = "array" -> JoinElements(x.a)
      [] x.t = "function" -> Return(Str("function " \o x.name \o "() { [native code] }"))
      [] OTHER -> IF "toString" \in DOMAIN x.f THEN Throw("TypeError") ELSE Return(Str("[object Object]"))

\* A template literal: its parts converted from left to right and
\* concatenated; the first conversion that throws ends it.
RECURSIVE Template(_)
Template(parts) ==
    IF parts = <<>> THEN Return(Str(""))
    ELSE LET first == ToStr(Head(parts))
             rest == Template(Tail(parts))
         IN
         IF ~first.ok THEN first
         ELSE IF ~rest.ok THEN rest
         ELSE Return(Str(first.value.s \o rest.value.s))

\* a === b on the values of the model; two objects are never the same
\* reference.
StrictEquals(a, b) == a.t = b.t /\ a.t \notin {"object", "array", "function"} /\ a = b

\* SameValueZero(a, b): as ===, the model holding neither NaN nor -0.
SameValueZero(a, b) == StrictEquals(a, b)

(***************************************************************************)
(* Paginated fetcher: getTransactions and getOriginations.                 *)
(***************************************************************************)
Ids == 1..NumIds

\* A record the upstream returns: its id, and the page it came in (standing
\* for the rest of the record, which may differ between two copies).
OperationRecord(i, p) == Obj([id |-> Num(i), level |-> Num(p)])

\* The pages the upstream may answer a request of `limit` records with: at
\* most `limit` records, distinct within the page.  Pages may overlap.
UpstreamPages(limit, p) ==
    UNION {{[k \in 1..n |-> OperationRecord(f[k], p)] :
                f \in {g \in [1..n -> Ids] : \A j, k \in 1..n : g[j] = g[k] => j = k}} :
           n \in 0..limit}

\* lodash uniqBy(array, key): the first element of every distinct key value.
uniqBy_KeepsDuplicates(array, key) == array

\* `seen` is the sequence of the key values kept so far; key values are
\* compared with SameValueZero, so an object or array equals no other.
RECURSIVE uniqByFrom(_, _, _)
uniqByFrom(array, key, seen) ==
    IF array = <<>> THEN <<>>
    ELSE IF \E k \in 1..Len(seen) : SameValueZero(seen[k], Prop(Head(array), key))
         THEN uniqByFrom(Tail(array), key, seen)
         ELSE <<Head(array)>> \o uniqByFrom(Tail(array), key, Append(seen, Prop(Head(array), key)))

uniqBy(array, key) == uniqByFrom(array, key, <<>>)

\* searchParams of the request for page `page`.
PageRequest_OffsetIsPage(ep, page, pp) == [endpoint |-> ep, offset |-> page, limit |-> pp]

PageRequest(ep, page, pp) == [endpoint |-> ep, offset |-> page * pp, limit |-> pp]

\* The do-while condition.
MorePages(page, mp) == page < mp

\* The end-of-data test on a received page.
EndOfData(page, pp) == Len(page) < pp

\* Before the call there are no arguments and no locals; the variables hold
\* placeholders until StartFetch sets them.
FetchInit ==
    /\ fpc = "idle"
    /\ endpoint = "none"
    /\ perPage = 1
    /\ maxPages = 1
    /\ currentPage = 0
    /\ allTransactions = <<>>
    /\ requests = <<>>
    /\ pages = <<>>
    /\ fetchResult = <<>>

\* The call up to its first await: the locals are set and page 0 is requested.
StartFetch(ep, pp, mp) ==
    /\ fpc = "idle"
    /\ endpoint' = ep
    /\ perPage' = pp
    /\ maxPages' = mp
    /\ currentPage' = 0
    /\ allTransactions' = <<>>
    /\ requests' = <<PageRequest(ep, 0, pp)>>
    /\ fpc' = "awaiting"
    /\ UNCHANGED <<pages, fetchResult, call>>

getTransactions ==
    \E pp \in 1..MaxPerPage, mp \in 0..MaxMaxPages :
        StartFetch("operations/transactions", pp, mp)

getOriginations ==
    \E pp \in 1..MaxPerPage, mp \in 0..MaxMaxPages :
        StartFetch("operations/originations", pp, mp)

\* The awaited request resolves with a page: the rest of the loop body, the
\* loop condition, and either the next request or the return.
ReceivePage ==
    /\ fpc = "awaiting"
    /\ \E page \in UpstreamPages(perPage, currentPage) :
        /\ pages' = Append(pages, page)
        /\ allTransactions' = allTransactions \o page
        /\ IF EndOfData(page, perPage)
           THEN /\ currentPage' = currentPage
                /\ requests' = requests
                /\ fetchResult' = uniqBy(allTransactions', "id")
                /\ fpc' = "done"
           ELSE /\ currentPage' = currentPage + 1
                /\ IF MorePages(currentPage', maxPages)
                   THEN /\ requests' = Append(requests, PageRequest(endpoint, currentPage', perPage))
                        /\ fetchResult' = fetchResult
                        /\ fpc' = "awaiting"
                   ELSE /\ requests' = requests
                        /\ fetchResult' = uniqBy(allTransactions', "id")
                        /\ fpc' = "done"
    /\ UNCHANGED <<endpoint, perPage, maxPages, call>>

\* The awaited request rejects: the call rejects with it, nothing is retried.
RequestFails ==
    /\ fpc = "awaiting"
    /\ fpc' = "failed"
    /\ UNCHANGED <<endpoint, perPage, maxPages, currentPage, allTransactions,
                   requests, pages, fetchResult, call>>

CallInit == call = [op |-> "none"]

InitFetch == FetchInit /\ CallInit
NextFetch == getTransactions \/ getOriginations \/ ReceivePage \/ RequestFails
SpecFetch == InitFetch /\ [][NextFetch]_vars

(***************************************************************************)
(* Bigmap diff index: isMatchingDiff, findDiff, filterDiffs.               *)
(***************************************************************************)
\* actions.includes(x)
Includes(actions, x) == \E k \in 1..Len(actions) : SameValueZero(actions[k], x)

\* Reading a property of undefined or null throws a TypeError.
Nullish(x) == x.t \in {"undefined", "null"}

\* The value of the predicate, or the TypeError thrown when the diff is
\* undefined or null, or when a key is given and the diff has no content.
isMatchingDiff(diff, bigmapId, path, action, key) ==
    LET actions == IF action.t = "array" THEN action.a ELSE <<action>> IN
    IF Nullish(diff) THEN Throw("TypeError")
    ELSE IF ~(/\ (bigmapId = Null \/ StrictEquals(Prop(diff, "bigmap"), bigmapId))
              /\ StrictEquals(Prop(diff, "path"), path)
              /\ Includes(actions, Prop(diff, "action")))
         THEN Return(FALSE)
         ELSE IF ~Truthy(key) THEN Return(TRUE)
         ELSE IF Nullish(Prop(diff, "content")) THEN Throw("TypeError")
         ELSE Return(StrictEquals(Prop(Prop(diff, "content"), "key"), key))

\* array.filter(diff => isMatchingDiff(...)): the matching elements in
\* order; a throwing predicate ends the call.
RECURSIVE filter(_, _, _, _, _)
filter(array, bigmapId, path, action, key) ==
    IF array = <<>> THEN Return(Arr(<<>>))
    ELSE LET first == isMatchingDiff(Head(array), bigmapId, path, action, key)
             rest == filter(Tail(array), bigmapId, path, action, key)
         IN
         IF ~first.ok THEN first
         ELSE IF ~rest.ok THEN rest
         ELSE Return(Arr((IF first.value THEN <<Head(array)>> ELSE <<>>) \o rest.value.a))

\* array.find(diff => isMatchingDiff(...)): the first matching element, or
\* undefined; the elements after it are not looked at.
RECURSIVE find(_, _, _, _, _)
find(array, bigmapId, path, action, key) ==
    IF array = <<>> THEN Return(Undef)
    ELSE LET first == isMatchingDiff(Head(array), bigmapId, path, action, key) IN
         IF ~first.ok THEN first
         ELSE IF first.value THEN Return(Head(array))
         ELSE find(Tail(array), bigmapId, path, action, key)

\* diffs.filter(...); a value that is no array has no filter method.
filterDiffs(diffs, bigmapId, path, action, key) ==
    IF diffs.t # "array" THEN Throw("TypeError") ELSE filter(diffs.a, bigmapId, path, action, key)

\* diffs.find(...); a value that is no array has no find method.
findDiff(diffs, bigmapId, path, action, key) ==
    IF diffs.t # "array" THEN Throw("TypeError") ELSE find(diffs.a, bigmapId, path, action, key)

(***************************************************************************)
(* Pattern matcher.                                                        *)
(***************************************************************************)
PATTERN_TO_PATH ==
    [entrypoint |-> <<"parameter", "entrypoint">>, target_address |-> <<"target", "address">>]

\* A pattern is a function from the attributes it declares to their
\* expected values.
transactionMatchesPattern(transaction, pattern) ==
    \A key \in DOMAIN pattern : StrictEquals(get(transaction, PATTERN_TO_PATH[key]), pattern[key])

(***************************************************************************)
(* Event identity.                                                         *)
(***************************************************************************)
\* The digest of the external metrohash library, kept symbolic: the digest
\* of s is written mh128(s).
metrohash128(input) == "mh128(" \o input \o ")"

\* The template string createEventId hashes.
EventIdInput_NullNonceAsZero(handlerName, transaction, idx) ==
    Template(<<Str(handlerName), Str(":"), Prop(transaction, "hash"), Str(":"), Prop(transaction, "counter"),
               Str(":"), IF Prop(transaction, "nonce") # Null THEN Prop(transaction, "nonce") ELSE Str("0"),
               Str(":"), IF idx = Undef THEN Num(0) ELSE idx>>)

EventIdInput(handlerName, transaction, idx) ==
    Template(<<Str(handlerName), Str(":"), Prop(transaction, "hash"), Str(":"), Prop(transaction, "counter"),
               Str(":"), IF Prop(transaction, "nonce") # Null THEN Prop(transaction, "nonce") ELSE Str("unset"),
               Str(":"), IF idx = Undef THEN Num(0) ELSE idx>>)

\* The `in` operator throws a TypeError on a primitive right operand; the
\* template literal throws the TypeError of a failed conversion.
createEventId_NonceNotRequired(handlerName, transaction, idx) ==
    LET input == EventIdInput(handlerName, transaction, idx) IN
    IF transaction.t \notin {"object", "array"} THEN Throw("TypeError")
    ELSE IF ~(HasProp(transaction, "hash") /\ HasProp(transaction, "counter"))
         THEN Throw("Error: transaction does not have all the properties needed")
         ELSE IF ~input.ok THEN input
         ELSE Return(Str(metrohash128(input.value.s)))

createEventId(handlerName, transaction, idx) ==
    LET input == EventIdInput(handlerName, transaction, idx) IN
    IF transaction.t \notin {"object", "array"} THEN Throw("TypeError")
    ELSE IF ~(HasProp(transaction, "hash") /\ HasProp(transaction, "counter") /\ HasProp(transaction, "nonce"))
         THEN Throw("Error: transaction does not have all the properties needed")
         ELSE IF ~input.ok THEN input
         ELSE Return(Str(metrohash128(input.value.s)))

(***************************************************************************)
(* Currency helpers.                                                       *)
(***************************************************************************)
\* The table of consts, an object literal: fa12 contract address to
\* currency symbol.
CURRENCY_MAPPINGS == [KT1fa12otez |-> "otez", KT1fa12usdtz |-> "USDtz"]

\* The function members an object literal inherits from Object.prototype
\* under their own names; its constructor is the function Object.
ObjectPrototypeFunctions ==
    {"toString", "toLocaleString", "valueOf", "hasOwnProperty", "isPrototypeOf",
     "propertyIsEnumerable", "__defineGetter__", "__defineSetter__", "__lookupGetter__", "__lookupSetter__"}

\* CURRENCY_MAPPINGS[key] for a key already converted to a string: the
\* entry, else the member of that name inherited from Object.prototype
\* (__proto__ being Object.prototype itself), else undefined.
CurrencyMapping(key) ==
    IF key \in DOMAIN CURRENCY_MAPPINGS THEN Str(CURRENCY_MAPPINGS[key])
    ELSE IF key \in ObjectPrototypeFunctions THEN Fn(key)
    ELSE IF key = "constructor" THEN Fn("Object")
    ELSE IF key = "__proto__" THEN Obj(<<>>)
    ELSE Undef

\* The `in` operator throws a TypeError on a primitive right operand; the
\* fa12 value is converted to a property key for the lookup.
extractObjktCurrency(currency) ==
    LET key == ToStr(Prop(currency, "fa12")) IN
    IF currency.t \notin {"object", "array"} THEN Throw("TypeError")
    ELSE IF HasProp(currency, "tez") THEN Return(Str("tez"))
    ELSE IF HasProp(currency, "fa12")
         THEN IF ~key.ok THEN key
              ELSE IF Truthy(CurrencyMapping(key.value.s)) THEN Return(CurrencyMapping(key.value.s))
              ELSE Return(Prop(currency, "fa12"))
         ELSE Return(Null)

isTezLikeCurrencyStrict(currency) == StrictEquals(currency, Str("tez")) \/ StrictEquals(currency, Str("otez"))

(***************************************************************************)
(* Validators of lib/validators, used by the handlers' schemas.            *)
(***************************************************************************)
DecimalStrings == {ToString(n) : n \in 0..9}
KnownTezosAddresses == {"tz1seller", "tz1buyer", "tz1artist"}
KnownContractAddresses ==
    {"KT1fa2", "KT1CePTyk6fk4cFr6fasY5YXPGks6ttjSLp4", "EIGHTBIDOU_24X24_MONOCHROME_CONTRACT_MARKETPLACE"}

IsString(v) == v.t = "string"
PgBigInt(v) == v.t = "string" /\ v.s \in DecimalStrings
TezosAddress(v) == v.t = "string" /\ v.s \in KnownTezosAddresses \cup KnownContractAddresses
ContractAddress(v) == v.t = "string" /\ v.s \in KnownContractAddresses
IsoDateString(v) == v.t = "string" /\ v.s = "2022-01-01T00:00:00Z"
PositiveInteger(v) == v.t = "number" /\ v.n >= 0
Optional(valid, v) == v = Undef \/ valid

(***************************************************************************)
(* Handlers.                                                               *)
(***************************************************************************)
OBJKT_CONTRACT_MARKETPLACE_V3 == "KT1CePTyk6fk4cFr6fasY5YXPGks6ttjSLp4"
EIGHTBIDOU_24X24_MONOCHROME_CONTRACT_MARKETPLACE == "EIGHTBIDOU_24X24_MONOCHROME_CONTRACT_MARKETPLACE"
SALE_INTERFACE == "SALE"

EVENT_TYPE_OBJKT_RETRACT_ASK_V3 == "OBJKT_RETRACT_ASK_V3"
EVENT_TYPE_OBJKT_FULFILL_ASK_V3 == "OBJKT_FULFILL_ASK_V3"
EVENT_TYPE_8BID_24X24_MONOCHROME_CANCEL_SWAP == "8BID_24X24_MONOCHROME_CANCEL_SWAP"

ObjktAsksBigmap == 574013
EightbidSwapListBigmap == 128202

\* What one exec call did: its result, and whether it obtained an event id.
Outcome(r, computed) == [result |-> r, idComputed |-> computed]

\* assert(omit(event, ['type']), ObjktRetractAskV3EventSchema)
ObjktRetractAskV3EventSchema(e) ==
    /\ DOMAIN e.f \subseteq {"id", "opid", "ophash", "level", "timestamp", "fa2_address",
                            "seller_address", "token_id", "ask_id", "artist_address"}
    /\ IsString(Prop(e, "id"))
    /\ PgBigInt(Prop(e, "opid"))
    /\ IsoDateString(Prop(e, "timestamp"))
    /\ PositiveInteger(Prop(e, "level"))
    /\ ContractAddress(Prop(e, "fa2_address"))
    /\ IsString(Prop(e, "token_id"))
    /\ IsString(Prop(e, "ophash"))
    /\ Optional(TezosAddress(Prop(e, "artist_address")), Prop(e, "artist_address"))
    /\ TezosAddress(Prop(e, "seller_address"))
    /\ PgBigInt(Prop(e, "ask_id"))

ObjktRetractAskAccept ==
    [entrypoint |-> Str("retract_ask"), target_address |-> Str(OBJKT_CONTRACT_MARKETPLACE_V3)]

ObjktRetractAskExec(transaction) ==
    LET askId == get(transaction, <<"parameter", "value">>)
        found == findDiff(get(transaction, <<"diffs">>), Num(ObjktAsksBigmap), Str("asks"),
                          Str("remove_key"), askId)
    IN
    IF ~found.ok THEN Outcome(found, FALSE)
    ELSE
    LET diff == found.value
        fa2Address == get(diff, <<"content", "value", "token", "address">>)
        tokenId == get(diff, <<"content", "value", "token", "token_id">>)
        sellerAddress == get(diff, <<"content", "value", "creator">>)
        id == createEventId(EVENT_TYPE_OBJKT_RETRACT_ASK_V3, transaction, Undef)
        opid == ToStr(Prop(transaction, "id"))
    IN
    IF ~id.ok THEN Outcome(id, FALSE)
    ELSE IF ~opid.ok THEN Outcome(opid, TRUE)
    ELSE
    LET fields == [id |-> id.value,
                   opid |-> opid.value,
                   ophash |-> Prop(transaction, "hash"),
                   level |-> Prop(transaction, "level"),
                   timestamp |-> Prop(transaction, "timestamp"),
                   fa2_address |-> fa2Address,
                   seller_address |-> sellerAddress,
                   token_id |-> tokenId,
                   ask_id |-> askId]
    IN
    IF ObjktRetractAskV3EventSchema(Obj(fields))
    THEN Outcome(Return(Obj(fields @@ [type |-> Str(EVENT_TYPE_OBJKT_RETRACT_ASK_V3)])), TRUE)
    ELSE Outcome(Throw("StructError"), TRUE)

\* assert(omit(event, ['type', 'implements']), ObjktFulfillAskV3EventSchema)
ObjktFulfillAskV3EventSchema(e) ==
    /\ DOMAIN e.f \subseteq {"id", "opid", "ophash", "level", "timestamp", "price", "fa2_address",
                            "token_id", "buyer_address", "seller_address", "ask_id", "artist_address"}
    /\ IsString(Prop(e, "id"))
    /\ PgBigInt(Prop(e, "opid"))
    /\ IsoDateString(Prop(e, "timestamp"))
    /\ PositiveInteger(Prop(e, "level"))
    /\ ContractAddress(Prop(e, "fa2_address"))
    /\ IsString(Prop(e, "token_id"))
    /\ IsString(Prop(e, "ophash"))
    /\ PgBigInt(Prop(e, "ask_id"))
    /\ TezosAddress(Prop(e, "seller_address"))
    /\ TezosAddress(Prop(e, "buyer_address"))
    /\ Optional(TezosAddress(Prop(e, "artist_address")), Prop(e, "artist_address"))
    /\ PgBigInt(Prop(e, "price"))

ObjktFulfillAskAccept ==
    [entrypoint |-> Str("fulfill_ask"), target_address |-> Str(OBJKT_CONTRACT_MARKETPLACE_V3)]

ObjktFulfillAskExec(transaction) ==
    LET askId == get(transaction, <<"parameter", "value", "ask_id">>)
        found == findDiff(get(transaction, <<"diffs">>), Num(ObjktAsksBigmap), Str("asks"),
                          Arr(<<Str("remove_key"), Str("update_key")>>), askId)
        price == ToStr(get(transaction, <<"amount">>))
    IN
    IF ~found.ok THEN Outcome(found, FALSE)
    ELSE IF ~price.ok THEN Outcome(price, FALSE)
    ELSE
    LET diff == found.value
        fa2Address == get(diff, <<"content", "value", "token", "address">>)
        tokenId == get(diff, <<"content", "value", "token", "token_id">>)
        buyerAddress == get(transaction, <<"sender", "address">>)
        sellerAddress == get(diff, <<"content", "value", "creator">>)
        currency == extractObjktCurrency(get(diff, <<"content", "value", "currency">>))
    IN
    IF ~currency.ok THEN Outcome(currency, FALSE)
    ELSE IF ~isTezLikeCurrencyStrict(currency.value) THEN Outcome(Throw("Error: unsupported currency"), FALSE)
    ELSE
    LET id == createEventId(EVENT_TYPE_OBJKT_FULFILL_ASK_V3, transaction, Undef)
        opid == ToStr(Prop(transaction, "id"))
    IN
    IF ~id.ok THEN Outcome(id, FALSE)
    ELSE IF ~opid.ok THEN Outcome(opid, TRUE)
    ELSE
    LET fields == [id |-> id.value,
                   opid |-> opid.value,
                   ophash |-> Prop(transaction, "hash"),
                   level |-> Prop(transaction, "level"),
                   timestamp |-> Prop(transaction, "timestamp"),
                   price |-> price.value,
                   fa2_address |-> fa2Address,
                   token_id |-> tokenId,
                   buyer_address |-> buyerAddress,
                   seller_address |-> sellerAddress,
                   ask_id |-> askId]
    IN
    IF ObjktFulfillAskV3EventSchema(Obj(fields))
    THEN Outcome(Return(Obj(fields @@ [type |-> Str(EVENT_TYPE_OBJKT_FULFILL_ASK_V3),
                                       implements |-> Str(SALE_INTERFACE)])), TRUE)
    ELSE Outcome(Throw("StructError"), TRUE)

\* assert(omit(event, ['type']), EightbidCancelSwap24x24MonochromeSchema)
EightbidCancelSwap24x24MonochromeSchema(e) ==
    /\ DOMAIN e.f = {"id", "opid", "timestamp", "level", "fa2_address", "seller_address",
                     "artist_address", "token_id", "swap_id"}
    /\ IsString(e.f.id)
    /\ PositiveInteger(e.f.opid)
    /\ IsoDateString(e.f.timestamp)
    /\ PositiveInteger(e.f.level)
    /\ ContractAddress(e.f.fa2_address)
    /\ IsString(e.f.token_id)
    /\ TezosAddress(e.f.seller_address)
    /\ TezosAddress(e.f.artist_address)
    /\ PgBigInt(e.f.swap_id)

EightbidCancelSwapAccept ==
    [entrypoint |-> Str("cancelswap"),
     target_address |-> Str(EIGHTBIDOU_24X24_MONOCHROME_CONTRACT_MARKETPLACE)]

\* createEventId is given transaction.id, not the transaction.
EightbidCancelSwapExec(transaction) ==
    LET swapId == get(transaction, <<"parameter", "value">>)
        found == findDiff(Prop(transaction, "diffs"), Num(EightbidSwapListBigmap), Str("swap_list"),
                          Str("update_key"), swapId)
    IN
    IF ~found.ok THEN Outcome(found, FALSE)
    ELSE
    LET diff == found.value
        fa2Address == get(diff, <<"content", "value", "nft_contract_address">>)
        tokenId == get(diff, <<"content", "value", "nft_id">>)
        sellerAddress == get(diff, <<"content", "value", "seller">>)
        artistAddress == get(diff, <<"content", "value", "creator">>)
        id == createEventId(EVENT_TYPE_8BID_24X24_MONOCHROME_CANCEL_SWAP, Prop(transaction, "id"), Undef)
    IN
    IF ~id.ok THEN Outcome(id, FALSE)
    ELSE
    LET fields == [id |-> id.value,
                   opid |-> Prop(transaction, "id"),
                   timestamp |-> Prop(transaction, "timestamp"),
                   level |-> Prop(transaction, "level"),
                   fa2_address |-> fa2Address,
                   seller_address |-> sellerAddress,
                   artist_address |-> artistAddress,
                   token_id |-> tokenId,
                   swap_id |-> swapId]
    IN
    IF EightbidCancelSwap24x24MonochromeSchema(Obj(fields))
    THEN Outcome(Return(Obj(fields @@ [type |-> Str(EVENT_TYPE_8BID_24X24_MONOCHROME_CANCEL_SWAP)])), TRUE)
    ELSE Outcome(Throw("StructError"), TRUE)

(***************************************************************************)
(* Inputs of the utility and handler calls.                                *)
(***************************************************************************)
DiffActions == {"add_key", "update_key", "remove_key"}
DiffKinds == {"tez", "otez", "usd", "nocurrency", "badcreator"}

\* The diff a handler is written for: its bigmap, path and action.
ObjktBaseDiff ==
    [bigmap |-> ObjktAsksBigmap, path |-> "asks", action |-> "remove_key", key |-> "7", kind |-> "tez"]
EightbidBaseDiff ==
    [bigmap |-> EightbidSwapListBigmap, path |-> "swap_list", action |-> "update_key", key |-> "7", kind |-> "tez"]

\* The base diff, and the diffs that differ from it in one field.
DiffChoices(base) ==
    {base, [base EXCEPT !.bigmap = 1], [base EXCEPT !.path = "bids"], [base EXCEPT !.key = "8"],
     [base EXCEPT !.key = ""]}
        \cup {[base EXCEPT !.action = a] : a \in DiffActions}
        \cup {[base EXCEPT !.kind = k] : k \in DiffKinds}

Currency(kind) ==
    CASE kind = "otez" -> [currency |-> Obj([fa12 |-> Str("KT1fa12otez")])]
      [] kind = "usd" -> [currency |-> Obj([fa12 |-> Str("KT1unknown")])]
      [] kind = "nocurrency" -> <<>>
      [] OTHER -> [currency |-> Obj([tez |-> Obj(<<>>)])]

\* The content.value of the diff at position pos; the token id tells the
\* diffs of one list apart.
DiffValue(c, pos) ==
    LET creator == IF c.kind = "badcreator" THEN Str("bogus") ELSE Str("tz1seller") IN
    IF c.path = "swap_list"
    THEN Obj([nft_contract_address |-> Str("KT1fa2"), nft_id |-> Str(ToString(pos)),
              seller |-> creator, creator |-> Str("tz1artist")])
    ELSE Obj([token |-> Obj([address |-> Str("KT1fa2"), token_id |-> Str(ToString(pos))]),
              creator |-> creator] @@ Currency(c.kind))

MkDiff(c, pos) ==
    Obj([bigmap |-> Num(c.bigmap), path |-> Str(c.path), action |-> Str(c.action),
         content |-> Obj([key |-> Str(c.key), value |-> DiffValue(c, pos)])])

DiffLists(base) ==
    UNION {{[k \in 1..n |-> MkDiff(f[k], k)] : f \in [1..n -> DiffChoices(base)]} : n \in 0..MaxDiffs}

\* The identity fields of a transaction: all three, or one missing.
IdentityFields ==
    {[hash |-> Str("ooHash"), counter |-> Num(1), nonce |-> Null],
     [hash |-> Str("ooHash"), counter |-> Num(1), nonce |-> Num(0)],
     [counter |-> Num(1), nonce |-> Null],
     [hash |-> Str("ooHash"), counter |-> Num(1)]}

ParameterValues ==
    {<<>>, [value |-> Str("")], [value |-> Str("7")], [value |-> Str("8")],
     [value |-> Obj(<<>>)], [value |-> Obj([ask_id |-> Str("")])], [value |-> Obj([ask_id |-> Str("7")])]}

Transaction(entrypoint, address, value, identity, diffs) ==
    Obj([id |-> Num(1), level |-> Num(10), timestamp |-> Str("2022-01-01T00:00:00Z"),
         amount |-> Num(5), sender |-> Obj([address |-> Str("tz1buyer")]),
         target |-> Obj([address |-> address]),
         parameter |-> Obj([entrypoint |-> entrypoint] @@ value)] @@ identity @@ diffs)

\* Keys spelt like a whole dotted path, which a JSON object may hold next
\* to (or instead of) the nested path: on the transaction, for the
\* entrypoint and for the key the handler reads at keyPath.
DottedKeys(keyPath) ==
    {<<>>,
     [x \in {"parameter.entrypoint"} |-> Str("other_entrypoint")],
     [x \in {Dotted(keyPath)} |-> Str("7")],
     [x \in {Dotted(keyPath)} |-> Str("8")]}

\* The base diff, alone or holding a key spelt 'content.value.creator'.
DottedDiffs(base) ==
    {MkDiff(base, 1), Obj(MkDiff(base, 1).f @@ [x \in {"content.value.creator"} |-> Str("tz1buyer")])}

\* Matching transactions with keys spelt like dotted paths.
DottedTransactions(accept, base, keyPath) ==
    {Obj(Transaction(accept.entrypoint, accept.target_address, value,
                     [hash |-> Str("ooHash"), counter |-> Num(1), nonce |-> Null],
                     [diffs |-> Arr(<<d>>)]).f @@ dotted) :
        value \in {<<>>, [value |-> Str("7")], [value |-> Obj([ask_id |-> Str("7")])]},
        dotted \in DottedKeys(keyPath),
        d \in DottedDiffs(base)}

\* The transactions a handler with pattern `accept` and base diff `base` is
\* run on: matching ones, ones of another entrypoint or target, and ones
\* with keys spelt like dotted paths.
HandlerTransactions(accept, base, keyPath) ==
    {Transaction(et[1], et[2], value, identity, diffs) :
        et \in {<<accept.entrypoint, accept.target_address>>,
                <<Str("other_entrypoint"), accept.target_address>>,
                <<accept.entrypoint, Str("KT1other")>>},
        value \in ParameterValues,
        identity \in IdentityFields,
        diffs \in {<<>>} \cup {[diffs |-> Arr(l)] : l \in DiffLists(base)}}
        \cup DottedTransactions(accept, base, keyPath)

\* Transactions for the pattern matcher: each path absent, cut short, null
\* or holding a value, and a key spelt like the whole path absent or
\* holding a value.
PathHolders(field, values) ==
    {Undef, Null, Obj(<<>>), Obj([x \in {field} |-> Null])} \cup {Obj([x \in {field} |-> Str(v)]) : v \in values}

DottedHolders(key, values) == {<<>>} \cup {[x \in {key} |-> Str(v)] : v \in values}

Entrypoints == {"retract_ask", "fulfill_ask"}
Targets == {OBJKT_CONTRACT_MARKETPLACE_V3, EIGHTBIDOU_24X24_MONOCHROME_CONTRACT_MARKETPLACE}

PatternTransactions ==
    {Obj((IF p = Undef THEN <<>> ELSE [parameter |-> p]) @@ (IF t = Undef THEN <<>> ELSE [target |-> t])
         @@ dp @@ dt) :
        p \in PathHolders("entrypoint", Entrypoints), t \in PathHolders("address", Targets),
        dp \in DottedHolders("parameter.entrypoint", Entrypoints),
        dt \in DottedHolders("target.address", Targets)}

Patterns ==
    {e @@ t : e \in {<<>>} \cup {[entrypoint |-> Str(v)] : v \in Entrypoints},
              t \in {<<>>} \cup {[target_address |-> Str(v)] : v \in Targets}}

\* Operations for createEventId: hash, counter and nonce each present or
\* not, and an id that is no part of the event identity.
EventIdTransactions ==
    {Obj(i @@ h @@ c @@ n) :
        i \in {[id |-> Num(1)], [id |-> Num(2)]},
        h \in {<<>>, [hash |-> Str("ooA")], [hash |-> Str("ooB")]},
        c \in {<<>>} \cup {[counter |-> Num(k)] : k \in 1..MaxCounter},
        n \in {<<>>, [nonce |-> Null]} \cup {[nonce |-> Num(k)] : k \in 0..MaxNonce}}

EventIdCalls ==
    [handlerName : {EVENT_TYPE_OBJKT_RETRACT_ASK_V3, EVENT_TYPE_OBJKT_FULFILL_ASK_V3},
     transaction : EventIdTransactions \cup {Num(1)},
     idx : {Undef} \cup {Num(k) : k \in 0..MaxIdx}]

FilterArguments ==
    [bigmapId : {Null, Num(ObjktAsksBigmap), Num(1)},
     path : {Str("asks"), Str("bids")},
     action : {Str("remove_key"), Str("update_key"), Arr(<<>>),
               Arr(<<Str("remove_key"), Str("update_key")>>)},
     key : {Undef, Str(""), Str("7"), Str("8")}]

(***************************************************************************)
(* Calls of the utilities and handlers.                                    *)
(***************************************************************************)
CallFilterDiffs ==
    /\ call.op = "none"
    /\ \E diffs \in DiffLists(ObjktBaseDiff), a \in FilterArguments :
        /\ call' = [op |-> "filterDiffs", diffs |-> diffs, args |-> a,
                    filtered |-> filterDiffs(Arr(diffs), a.bigmapId, a.path, a.action, a.key),
                    found |-> findDiff(Arr(diffs), a.bigmapId, a.path, a.action, a.key)]
        /\ UNCHANGED fetchVars

CallTransactionMatchesPattern ==
    /\ call.op = "none"
    /\ \E transaction \in PatternTransactions, pattern \in Patterns :
        /\ call' = [op |-> "transactionMatchesPattern", transaction |-> transaction, pattern |-> pattern,
                    result |-> transactionMatchesPattern(transaction, pattern)]
        /\ UNCHANGED fetchVars

\* Two calls of createEventId for one handler, to compare their ids.
EventIdCall(c) ==
    [args |-> c,
     input |-> EventIdInput(c.handlerName, c.transaction, c.idx),
     result |-> createEventId(c.handlerName, c.transaction, c.idx)]

CallCreateEventId ==
    /\ call.op = "none"
    /\ \E a \in EventIdCalls :
       \E b \in {c \in EventIdCalls : c.handlerName = a.handlerName} :
        /\ call' = [op |-> "createEventId", first |-> EventIdCall(a), second |-> EventIdCall(b)]
        /\ UNCHANGED fetchVars

Exec(handler, accept, transaction, outcome) ==
    /\ call' = [op |-> "exec", handler |-> handler, transaction |-> transaction,
                matched |-> transactionMatchesPattern(transaction, accept),
                result |-> outcome.result, idComputed |-> outcome.idComputed]
    /\ UNCHANGED fetchVars

ExecObjktRetractAsk ==
    /\ call.op = "none"
    /\ \E transaction \in HandlerTransactions(ObjktRetractAskAccept, ObjktBaseDiff, <<"parameter", "value">>) :
        Exec(EVENT_TYPE_OBJKT_RETRACT_ASK_V3, ObjktRetractAskAccept, transaction,
             ObjktRetractAskExec(transaction))

ExecObjktFulfillAsk ==
    /\ call.op = "none"
    /\ \E transaction \in HandlerTransactions(ObjktFulfillAskAccept, ObjktBaseDiff, <<"parameter", "value", "ask_id">>) :
        Exec(EVENT_TYPE_OBJKT_FULFILL_ASK_V3, ObjktFulfillAskAccept, transaction,
             ObjktFulfillAskExec(transaction))

ExecEightbidCancelSwap ==
    /\ call.op = "none"
    /\ \E transaction \in HandlerTransactions(EightbidCancelSwapAccept, EightbidBaseDiff, <<"parameter", "value">>) :
        Exec(EVENT_TYPE_8BID_24X24_MONOCHROME_CANCEL_SWAP, EightbidCancelSwapAccept, transaction,
             EightbidCancelSwapExec(transaction))

Init == FetchInit /\ CallInit
Next ==
    \/ CallFilterDiffs
    \/ CallTransactionMatchesPattern
    \/ CallCreateEventId
    \/ ExecObjktRetractAsk
    \/ ExecObjktFulfillAsk
    \/ ExecEightbidCancelSwap
Spec == Init /\ [][Next]_vars

(***************************************************************************)
(* Properties of the fetcher.                                              *)
(***************************************************************************)
ShortPages == {k \in 1..Len(pages) : Len(pages[k]) < perPage}

PageSizes == [k \in 1..Len(pages) |-> Len(pages[k])]

RECURSIVE Concat(_)
Concat(ps) == IF ps = <<>> THEN <<>> ELSE Head(ps) \o Concat(Tail(ps))

IdOf(r) == r.f.id.n

\* The position of the first record with id i in the sequence s.
FirstPos(s, i) == CHOOSE k \in 1..Len(s) : IdOf(s[k]) = i /\ \A j \in 1..(k - 1) : IdOf(s[j]) # i

\* C1: with perPage >= 1 and maxPages >= 1 the page requests are issued one
\* after another, the k-th (from 0) with offset k*perPage and limit perPage;
\* the call goes on only while no page was short and fewer than maxPages
\* requests were made, and returns after the first short page or after
\* exactly maxPages requests when no page was short.
C1_SequentialPagination ==
    (fpc # "idle" /\ maxPages >= 1) =>
        /\ \A k \in 1..Len(requests) :
               requests[k] = [endpoint |-> endpoint, offset |-> (k - 1) * perPage, limit |-> perPage]
        /\ Len(requests) \in {Len(pages), Len(pages) + 1}
        /\ Len(requests) >= 1
        /\ (fpc \in {"awaiting", "failed"} =>
               /\ Len(requests) = Len(pages) + 1
               /\ ShortPages = {}
               /\ Len(requests) <= maxPages)
        /\ (fpc = "done" =>
               /\ Len(requests) = Len(pages)
               /\ \/ ShortPages = {Len(pages)}
                  \/ ShortPages = {} /\ Len(requests) = maxPages)

\* C1 witness: pages of sizes 2, 2, 1 with perPage = 2 end the call after
\* exactly three requests.
C1_Witness ==
    /\ fpc = "done"
    /\ perPage = 2
    /\ PageSizes = <<2, 2, 1>>
    /\ Len(requests) = 3

\* C2: the returned list holds every id of the fetched pages exactly once,
\* each by the record of its first occurrence in the concatenation of the
\* pages, and in the order of those first occurrences.
C2_DedupFirstOccurrence ==
    fpc = "done" =>
        LET cat == Concat(pages) IN
        /\ {IdOf(fetchResult[k]) : k \in 1..Len(fetchResult)} = {IdOf(cat[k]) : k \in 1..Len(cat)}
        /\ \A j, k \in 1..Len(fetchResult) : IdOf(fetchResult[j]) = IdOf(fetchResult[k]) => j = k
        /\ \A k \in 1..Len(fetchResult) : fetchResult[k] = cat[FirstPos(cat, IdOf(fetchResult[k]))]
        /\ \A j, k \in 1..Len(fetchResult) :
               j < k => FirstPos(cat, IdOf(fetchResult[j])) < FirstPos(cat, IdOf(fetchResult[k]))

\* C2 witness: page 2 starts with the id that ended page 1, and the call
\* returned.
C2_Witness ==
    /\ fpc = "done"
    /\ Len(pages) >= 2
    /\ Len(pages[2]) >= 1
    /\ IdOf(pages[2][1]) = IdOf(pages[1][Len(pages[1])])
    /\ Len(fetchResult) >= 2

\* C3: a call never issues more than maxPages requests and never
\* accumulates more than maxPages * perPage records (maxPages >= 0).
C3_MaxPagesIsHardCap ==
    fpc # "idle" =>
        /\ Len(requests) <= maxPages
        /\ Len(allTransactions) <= maxPages * perPage

(***************************************************************************)
(* Properties of the utilities.                                            *)
(***************************************************************************)
\* The action set of an action argument.
ActionSet(action) == IF action.t = "array" THEN {action.a[k] : k \in 1..Len(action.a)} ELSE {action}

\* The predicate of the diff index, as specified.
SpecifiedMatch(d, a) ==
    /\ (a.bigmapId = Null \/ d.f.bigmap = a.bigmapId)
    /\ d.f.path = a.path
    /\ d.f.action \in ActionSet(a.action)
    /\ (a.key = Undef \/ d.f.content.f.key = a.key)

\* C4: filterDiffs returns, in order, exactly the diffs with (bigmapId null
\* or equal), equal path, action in the action set and (key not supplied or
\* equal key), for any key string, the empty one included; findDiff returns
\* the first of them, or nothing.
C4_FilterDiffsExactPredicate ==
    call.op = "filterDiffs" =>
        LET expected == SelectSeq(call.diffs, LAMBDA d : SpecifiedMatch(d, call.args)) IN
        /\ call.filtered = Return(Arr(expected))
        /\ call.found = Return(IF expected = <<>> THEN Undef ELSE expected[1])

\* The fixed attribute table, as specified.
SpecifiedPath(attribute) ==
    IF attribute = "entrypoint" THEN <<"parameter", "entrypoint">> ELSE <<"target", "address">>

RECURSIVE PathExists(_, _)
PathExists(x, path) ==
    \/ path = <<>>
    \/ /\ x.t = "object"
       /\ Head(path) \in DOMAIN x.f
       /\ PathExists(x.f[Head(path)], Tail(path))

RECURSIVE ValueAt(_, _)
ValueAt(x, path) == IF path = <<>> THEN x ELSE ValueAt(x.f[Head(path)], Tail(path))

\* C5: for every transaction, transactionMatchesPattern is true iff every
\* attribute the pattern declares has its path (parameter.entrypoint,
\* target.address) present in the transaction, holding the expected value;
\* an absent path gives false, the empty pattern gives true.
C5_PatternMatchIsTotalAnd ==
    call.op = "transactionMatchesPattern" =>
        (call.result = TRUE <=>
            \A attribute \in DOMAIN call.pattern :
                /\ PathExists(call.transaction, SpecifiedPath(attribute))
                /\ ValueAt(call.transaction, SpecifiedPath(attribute)) = call.pattern[attribute])

\* The tuple an event id is specified to depend on.
IdentityTuple(c) ==
    <<c.handlerName, Prop(c.transaction, "hash"), Prop(c.transaction, "counter"),
      Prop(c.transaction, "nonce"), IF c.idx = Undef THEN Num(0) ELSE c.idx>>

\* C6: two calls with equal (handlerType, hash, counter, nonce, subIndex)
\* hash the same input and return the same id, whatever else the operations
\* hold; two calls that differ only in nonce null versus a numeric nonce
\* hash different inputs.
C6_IdDependsOnIdentityTuple ==
    (call.op = "createEventId" /\ call.first.result.ok /\ call.second.result.ok) =>
        LET a == IdentityTuple(call.first.args)
            b == IdentityTuple(call.second.args)
        IN
        /\ a = b => /\ call.first.input = call.second.input
                    /\ call.first.result.value = call.second.result.value
        /\ (/\ a[1] = b[1] /\ a[2] = b[2] /\ a[3] = b[3] /\ a[5] = b[5]
            /\ a[4] = Null
            /\ b[4].t = "number") => call.first.input # call.second.input

\* C6 witness: a null nonce against nonce 0 with everything else equal, and
\* both ids returned.
C6_Witness ==
    /\ call.op = "createEventId"
    /\ call.first.result.ok
    /\ call.second.result.ok
    /\ call.first.args.handlerName = call.second.args.handlerName
    /\ call.first.args.idx = Undef
    /\ call.second.args.idx = Num(0)
    /\ Prop(call.first.args.transaction, "nonce") = Null
    /\ Prop(call.second.args.transaction, "nonce") = Num(0)
    /\ Prop(call.first.args.transaction, "hash") = Prop(call.second.args.transaction, "hash")
    /\ Prop(call.first.args.transaction, "counter") = Prop(call.second.args.transaction, "counter")

\* The operation carries the field.
Carries(transaction, field) == transaction.t = "object" /\ field \in DOMAIN transaction.f

CarriesIdentity(transaction) ==
    Carries(transaction, "hash") /\ Carries(transaction, "counter") /\ Carries(transaction, "nonce")

\* C7: createEventId throws when hash, counter or nonce is missing from the
\* operation and returns an id exactly when all three are present, a null
\* nonce counting as present.
C7_IdRequiresIdentityFields ==
    call.op = "createEventId" =>
        /\ call.first.result.ok <=> CarriesIdentity(call.first.args.transaction)
        /\ call.second.result.ok <=> CarriesIdentity(call.second.args.transaction)

\* C7 witness: one call on an operation that lacks only its nonce threw,
\* one on an operation with a null nonce returned.
C7_Witness ==
    /\ call.op = "createEventId"
    /\ Carries(call.first.args.transaction, "hash")
    /\ Carries(call.first.args.transaction, "counter")
    /\ ~Carries(call.first.args.transaction, "nonce")
    /\ ~call.first.result.ok
    /\ CarriesIdentity(call.second.args.transaction)
    /\ Prop(call.second.args.transaction, "nonce") = Null
    /\ call.second.result.ok

(***************************************************************************)
(* Properties of the handlers.                                             *)
(***************************************************************************)
\* What each handler looks up: bigmap, path, actions, and where the key is.
Lookup(handler) ==
    CASE handler = EVENT_TYPE_OBJKT_RETRACT_ASK_V3 ->
            [bigmap |-> Num(ObjktAsksBigmap), path |-> Str("asks"), actions |-> {Str("remove_key")},
             key |-> <<"parameter", "value">>]
      [] handler = EVENT_TYPE_OBJKT_FULFILL_ASK_V3 ->
            [bigmap |-> Num(ObjktAsksBigmap), path |-> Str("asks"),
             actions |-> {Str("remove_key"), Str("update_key")},
             key |-> <<"parameter", "value", "ask_id">>]
      [] OTHER ->
            [bigmap |-> Num(EightbidSwapListBigmap), path |-> Str("swap_list"),
             actions |-> {Str("update_key")}, key |-> <<"parameter", "value">>]

DiffsOf(transaction) ==
    IF Carries(transaction, "diffs") /\ transaction.f.diffs.t = "array" THEN transaction.f.diffs.a ELSE <<>>

KeyOf(handler, transaction) ==
    IF PathExists(transaction, Lookup(handler).key) THEN ValueAt(transaction, Lookup(handler).key) ELSE Undef

\* The positions of the diffs on the handler's bigmap and path, of one of
\* its actions, whose key equals the transaction's key.
KeyedDiffs(handler, transaction) ==
    {k \in 1..Len(DiffsOf(transaction)) :
        LET d == DiffsOf(transaction)[k] IN
        /\ d.f.bigmap = Lookup(handler).bigmap
        /\ d.f.path = Lookup(handler).path
        /\ d.f.action \in Lookup(handler).actions
        /\ KeyOf(handler, transaction).t = "string"
        /\ d.f.content.f.key = KeyOf(handler, transaction)}

FirstOf(S) == CHOOSE k \in S : \A j \in S : k <= j

FirstKeyedDiff(handler, transaction) == DiffsOf(transaction)[FirstOf(KeyedDiffs(handler, transaction))]

\* The diff carries what the handler's schema needs.
ValidDiffFields(handler, d) ==
    IF handler = EVENT_TYPE_8BID_24X24_MONOCHROME_CANCEL_SWAP
    THEN /\ d.f.content.f.value.f.seller.s \in KnownTezosAddresses
         /\ d.f.content.f.value.f.creator.s \in KnownTezosAddresses
    ELSE d.f.content.f.value.f.creator.s \in KnownTezosAddresses

\* The currency of the diff is tez or a token mapped to otez.
TezLike(d) ==
    /\ "currency" \in DOMAIN d.f.content.f.value.f
    /\ \/ "tez" \in DOMAIN d.f.content.f.value.f.currency.f
       \/ /\ "fa12" \in DOMAIN d.f.content.f.value.f.currency.f
          /\ d.f.content.f.value.f.currency.f.fa12 = Str("KT1fa12otez")

\* The transaction has the entrypoint and the target of the pattern, at the
\* paths parameter.entrypoint and target.address.
HasEntrypointAndTarget(transaction, accept) ==
    \A attribute \in DOMAIN accept :
        /\ PathExists(transaction, SpecifiedPath(attribute))
        /\ ValueAt(transaction, SpecifiedPath(attribute)) = accept[attribute]

\* C8: on a transaction with entrypoint retract_ask and the objkt v3
\* marketplace as target that carries hash, counter and nonce and whose
\* diffs hold one remove_key diff on bigmap 574013 / asks with content.key
\* equal to the parameter value (the diff's fields valid), the handler
\* matches and exec returns an event with that key as ask_id, with
\* fa2_address, token_id and seller_address of that diff, and with id
\* createEventId(type, transaction, 0).
C8_RetractAskEndToEnd ==
    (/\ call.op = "exec"
     /\ call.handler = EVENT_TYPE_OBJKT_RETRACT_ASK_V3
     /\ HasEntrypointAndTarget(call.transaction, ObjktRetractAskAccept)
     /\ CarriesIdentity(call.transaction)
     /\ Cardinality(KeyedDiffs(call.handler, call.transaction)) = 1
     /\ ValidDiffFields(call.handler, FirstKeyedDiff(call.handler, call.transaction))) =>
        LET d == FirstKeyedDiff(call.handler, call.transaction) IN
        /\ call.matched
        /\ call.result.ok
        /\ call.result.value.f.type = Str(EVENT_TYPE_OBJKT_RETRACT_ASK_V3)
        /\ call.result.value.f.ask_id = d.f.content.f.key
        /\ call.result.value.f.fa2_address = d.f.content.f.value.f.token.f.address
        /\ call.result.value.f.token_id = d.f.content.f.value.f.token.f.token_id
        /\ call.result.value.f.seller_address = d.f.content.f.value.f.creator
        /\ call.result.value.f.id = Str(metrohash128(
               EVENT_TYPE_OBJKT_RETRACT_ASK_V3 \o ":" \o call.transaction.f.hash.s \o ":"
               \o ToString(call.transaction.f.counter.n) \o ":"
               \o (IF call.transaction.f.nonce = Null THEN "unset" ELSE ToString(call.transaction.f.nonce.n))
               \o ":0"))

\* C9: the fulfill_ask exec returns an event only when the diffs hold a
\* remove_key or update_key diff on bigmap 574013 / asks whose key equals
\* parameter.value.ask_id and whose currency is tez or otez; on every other
\* matched transaction it throws, before any event id is computed.
C9_FulfillAskRejectsBeforeId ==
    (/\ call.op = "exec"
     /\ call.handler = EVENT_TYPE_OBJKT_FULFILL_ASK_V3
     /\ call.matched) =>
        LET supported == \E k \in KeyedDiffs(call.handler, call.transaction) :
                             TezLike(DiffsOf(call.transaction)[k])
        IN
        /\ call.result.ok => supported
        /\ ~supported => ~call.result.ok /\ ~call.idComputed

\* C10: every handler, run on a matched transaction that carries hash,
\* counter and nonce and holds the diff the handler looks up with valid
\* fields (and a supported currency), returns an event whose id is
\* createEventId(type, transaction, 0) and whose opid is the transaction id.
C10_EveryHandlerDerivesIdFromTransaction ==
    (/\ call.op = "exec"
     /\ call.matched
     /\ CarriesIdentity(call.transaction)
     /\ KeyedDiffs(call.handler, call.transaction) # {}
     /\ PgBigInt(KeyOf(call.handler, call.transaction))
     /\ ValidDiffFields(call.handler, FirstKeyedDiff(call.handler, call.transaction))
     /\ (call.handler = EVENT_TYPE_OBJKT_FULFILL_ASK_V3 =>
            TezLike(FirstKeyedDiff(call.handler, call.transaction)))) =>
        /\ call.result.ok
        /\ Return(call.result.value.f.id) = createEventId(call.handler, call.transaction, Num(0))
        /\ call.result.value.f.opid \in {call.transaction.f.id, Str(ToString(call.transaction.f.id.n))}

====
